---- MODULE Spec2Model ----
(***************************************************************************)
(* Model of src/src/standalone.py: the asyncio TCP SIP responder           *)
(* AsyncSIPServerProtocol.  One protocol object exists per accepted        *)
(* connection; it owns the transport, a tag `did` drawn at construction    *)
(* and the handle `currentCall`.  No callback has a suspension point, so   *)
(* the single-threaded event loop runs each to completion and goes back to *)
(* polling before it runs the next.  A callback is one action, except that *)
(* the time data_received spends inside the Call constructor is a state.   *)
(***************************************************************************)
EXTENDS Integers, Sequences, FiniteSets, TLC

\* ---------------------------------------------------------------- bounds
NConn    == 2      \* connections the listener accepts
MaxLines == 1      \* lines of an SDP body

Conns == 1..NConn

\* two of the strings generate_unique_string can return, and two Call-ID
\* header values
Tags    == {"t1", "t2"}
CallIds == {"abc123", "xyz789"}
NoTag    == "-"
NoCallId == "-"

\* ------------------------------------------------------------- the wire
\* A chunk of received bytes is its header block followed by `rest`, a
\* sequence of tokens: SEP is one occurrence of b"\r\n\r\n", every other
\* token is one line of the body.
SEP == "SEP"
\* a line the SDP parser accepts, an "a=rtcp:" line, a line the SDP parser
\* rejects, and a line whose bytes are not valid UTF-8
LineKinds == {"ok", "rtcp", "bad", "nonutf8"}

Methods == {"INVITE", "ACK", "BYE", "OPTIONS", "CANCEL", "REGISTER"}

\* To header of a request: no tag yet, or one tag, which the peer supplies
ToTags == {<<>>, <<"t1">>}

SdpBodies == {<<>>} \cup UNION {[1..n -> LineKinds] : n \in 1..MaxLines}

\* header block, blank line, body; and a body the SDP parser would take,
\* followed by a further blank line
Rests == {<<SEP>> \o b : b \in SdpBodies}
         \cup {<<SEP>> \o b \o <<SEP>> : b \in {x \in SdpBodies : x \in Seq({"ok"})}}

Garbage == [ok |-> FALSE, method |-> "", callId |-> NoCallId, toTags |-> <<>>]

Headers == [ok : {TRUE}, method : Methods, callId : CallIds, toTags : ToTags]

\* The body of a request other than INVITE is never looked at.
Datas == {[hdr |-> Garbage, rest |-> <<>>]}
         \cup {[hdr |-> h, rest |-> <<SEP>>] : h \in {x \in Headers : x.method # "INVITE"}}
         \cup {[hdr |-> h, rest |-> r] : h \in {x \in Headers : x.method = "INVITE"},
                                        r \in Rests}

NoData == [hdr |-> Garbage, rest |-> <<"-">>]

\* A str is the sequence of its characters, each given by the number of
\* bytes of its UTF-8 encoding.
EmptyStr == <<>>
AnswerBodies == {<<1>>, <<2>>}

\* What the Call collaborator does when it is asked: the constructor
\* throws, or it returns a Call whose get_body returns the answer.
NoEnv == [call |-> "-", answer |-> EmptyStr]
Envs  == {[call |-> "createFails", answer |-> EmptyStr]}
         \cup [call : {"ok"}, answer : AnswerBodies]

\* Python's None, as a Call-shaped record
None == [did |-> NoTag, callId |-> NoCallId]

\* the methods the Allow header of every response names
Allow == {"INVITE", "ACK", "CANCEL", "OPTIONS", "BYE"}

Unbound == [status |-> "<unbound>", to |-> <<>>, callId |-> NoCallId,
            allow |-> Allow, contentLength |-> 0, body |-> EmptyStr]

VARIABLES
    paramsBound,   \* whether the module's global namespace binds `params`
    transport,     \* per connection: "unborn", "open", "closed", "lost"
    did,           \* per connection: self.did (NoTag before the object exists)
    currentCall,   \* per connection: self.currentCall
    calls,         \* the Calls constructed and not released, each known by
                   \* the tag and the Call-ID it was made for
    last           \* the callback the event loop has just run and what it
                   \* wrote; Idle once the loop has gone back to polling

vars == <<paramsBound, transport, did, currentCall, calls, last>>

\* ------------------------------------------------------- collaborators
\* sip.SIPMessage(data): the structured view, or an exception
SIPMessage(data) == data.hdr

\* secrets.choice over the alphabet, 8 times: any string of the alphabet
generate_unique_string == Tags

\* call.Call(did, sdp, flavor): an object that remembers the tag it was
\* given; callId is the Call-ID of the INVITE that made it (kept for the
\* properties, the code does not store it)
Call(d, k) == [did |-> d, callId |-> k]

\* Call.get_body(): the SDP answer the collaborator returns
get_body(call, env) == env.answer

\* aiortc SessionDescription.parse: throws on a line it cannot parse, and on
\* an a=rtcp: line
SdpParses(lines) == \A i \in 1..Len(lines) : lines[i] = "ok"

\* bytes.decode('utf-8')
Utf8Decodes(lines) == \A i \in 1..Len(lines) : lines[i] # "nonutf8"

\* ------------------------------------------------------------- helpers
\* bytes.split(b"\r\n\r\n"): one part more than there are separators
RECURSIVE split(_, _)
split(toks, acc) ==
    IF toks = <<>> THEN <<acc>>
    ELSE IF Head(toks) = SEP THEN <<acc>> \o split(Tail(toks), <<>>)
    ELSE split(Tail(toks), Append(acc, Head(toks)))

\* the list comprehension dropping lines that start with "a=rtcp:"
StripRtcp(lines) == SelectSeq(lines, LAMBDA l : l # "rtcp")

\* len(body) of a str: its number of characters
StrLen(body) == Len(body)

\* str.encode('utf-8'): the number of bytes the characters encode to
RECURSIVE encode(_)
encode(text) == IF text = <<>> THEN 0 ELSE Head(text) + encode(Tail(text))

create_response(d, request, status_line, body) ==
    [status        |-> status_line,
     to            |-> request.toTags \o <<d>>,
     callId        |-> request.callId,
     allow         |-> Allow,
     contentLength |-> StrLen(body),
     body          |-> body]

\* The running call of data_received: the fields of self it may assign, the
\* local `response`, what it wrote, and the exception that left it.
Frame(c) == [transport |-> transport[c], currentCall |-> currentCall[c],
             response |-> Unbound, out |-> <<>>, raised |-> "none",
             caught |-> "none", created |-> {}]

Raise(f, exc) == [f EXCEPT !.raised = exc]

\* self.transport.write(response.encode('utf-8'))
Write(f, resp) ==
    [f EXCEPT !.out = Append(@, [resp |-> resp, open |-> f.transport = "open"])]

Bind(f, resp) == [f EXCEPT !.response = resp]

\* ------------------------------------------------------ data_received
\* on_parse_failure answering the peer after it closed the transport
on_parse_failure_replies(f) ==
    Write([f EXCEPT !.transport = "closed"],
          [status |-> "400 Bad Request", to |-> <<>>, callId |-> NoCallId,
           allow |-> Allow, contentLength |-> 0, body |-> EmptyStr])

\* lines 71-74: the message did not parse; close and return
on_parse_failure(f) == [f EXCEPT !.transport = "closed"]

\* try_call dropping the connection's Call handle when the constructor fails
try_call_drops_handle(f, d, msg, env) ==
    LET e500 == create_response(d, msg, "500 Internal Server Error", EmptyStr)
    IN  IF ~paramsBound
        THEN Bind([f EXCEPT !.caught = "NameError"], e500)
        ELSE IF env.call = "createFails"
        THEN Bind([f EXCEPT !.caught = "CallError", !.currentCall = None], e500)
        ELSE LET call == Call(d, msg.callId)
                 f1   == [f EXCEPT !.currentCall = call, !.created = {call}]
             IN  Bind(f1, create_response(d, msg, "200 OK", get_body(call, env)))

\* lines 107-116: the try block around the Call collaborator.  Evaluating
\* the arguments of Call(...) reads the global `params`; when the module
\* does not bind it that is a NameError, which the except clause catches
\* like any failure of the collaborator.
try_call(f, d, msg, env) ==
    LET e500 == create_response(d, msg, "500 Internal Server Error", EmptyStr)
    IN  IF ~paramsBound
        THEN Bind([f EXCEPT !.caught = "NameError"], e500)
        ELSE IF env.call = "createFails"
        THEN Bind([f EXCEPT !.caught = "CallError"], e500)
        ELSE LET call == Call(d, msg.callId)
                 f1   == [f EXCEPT !.currentCall = call, !.created = {call}]
             IN  Bind(f1, create_response(d, msg, "200 OK", get_body(call, env)))

\* whether an INVITE with these bytes gets as far as the try block
ReachesCall(data) ==
    LET parts == split(data.rest, <<>>)
    IN  /\ Len(parts) = 2
        /\ Utf8Decodes(parts[2])
        /\ SdpParses(StripRtcp(parts[2]))

\* lines 77-116
on_INVITE(f, d, msg, data, env) ==
    LET f1    == Write(f, create_response(d, msg, "100 Trying", EmptyStr))
        parts == split(data.rest, <<>>)
    IN  IF Len(parts) # 2 THEN Raise(f1, "ValueError")
        ELSE IF ~Utf8Decodes(parts[2]) THEN Raise(f1, "UnicodeDecodeError")
        ELSE IF ~SdpParses(StripRtcp(parts[2])) THEN Raise(f1, "SdpParseError")
        ELSE try_call(f1, d, msg, env)

\* on_OPTIONS dropping the connection's Call handle
on_OPTIONS_drops_call(f, d, msg) ==
    Bind([f EXCEPT !.currentCall = None], create_response(d, msg, "200 OK", EmptyStr))

\* lines 120-122
on_OPTIONS(f, d, msg) == Bind(f, create_response(d, msg, "200 OK", EmptyStr))

\* lines 123-125
on_BYE(f, d, msg) == Bind(f, create_response(d, msg, "200 OK", EmptyStr))

\* lines 126-129: nothing is assigned, `response` included
on_ACK(f, d, msg) == f

\* on_other answering 501 and closing the transport
on_other_closes(f, d, msg) ==
    Bind([f EXCEPT !.transport = "closed"],
         create_response(d, msg, "501 Not Implemented", EmptyStr))

\* lines 130-131
on_other(f, d, msg) == Bind(f, create_response(d, msg, "501 Not Implemented", EmptyStr))

\* lines 133-134: reading the local `response` when no branch assigned it
\* is an UnboundLocalError
send_response(f) ==
    IF f.raised # "none" THEN f
    ELSE IF f.response = Unbound THEN Raise(f, "UnboundLocalError")
    ELSE Write(f, f.response)

dispatch(f, d, msg, data, env) ==
    CASE msg.method = "INVITE"  -> on_INVITE(f, d, msg, data, env)
      [] msg.method = "OPTIONS" -> on_OPTIONS(f, d, msg)
      [] msg.method = "BYE"     -> on_BYE(f, d, msg)
      [] msg.method = "ACK"     -> on_ACK(f, d, msg)
      [] OTHER                  -> on_other(f, d, msg)

data_received(c, data, env) ==
    LET msg == SIPMessage(data)
    IN  IF ~msg.ok THEN on_parse_failure(Frame(c))
        ELSE send_response(dispatch(Frame(c), did[c], msg, data, env))

\* ------------------------------------------------------------- actions
Event(kind, c, data, env, f) ==
    [kind |-> kind, conn |-> c, data |-> data, env |-> env, out |-> f.out,
     raised |-> f.raised, caught |-> f.caught, created |-> f.created]

Quiet == [out |-> <<>>, raised |-> "none", caught |-> "none", created |-> {}]

Idle == Event("idle", 0, NoData, NoEnv, Quiet)

\* the protocol factory of create_server, __init__ and connection_made
connection_made(c) ==
    /\ last = Idle
    /\ transport[c] = "unborn"
    /\ \E t \in generate_unique_string :
          did' = [did EXCEPT ![c] = t]
    /\ transport' = [transport EXCEPT ![c] = "open"]
    /\ currentCall' = [currentCall EXCEPT ![c] = None]
    /\ last' = Event("accept", c, NoData, NoEnv, Quiet)
    /\ UNCHANGED <<paramsBound, calls>>

\* The collaborator answers only when it is asked: the INVITE got to the
\* try block and the arguments of Call(...) evaluated.
EnvsFor(data) ==
    IF data.hdr.method = "INVITE" /\ ReachesCall(data) /\ paramsBound
    THEN Envs ELSE {NoEnv}

\* lines 80-109, up to the call of the constructor: 100 Trying is written
\* and the handler is inside Call(...)
enter_call(c, data) ==
    Write(Frame(c), create_response(did[c], SIPMessage(data), "100 Trying", EmptyStr))

\* data_received has run to its end with frame f: what it assigned to self,
\* and what the loop does to the transport.  An exception leaving
\* data_received is a fatal error of the transport: the loop force-closes
\* the connection.
Returned(c, data, env, f) ==
    /\ transport' = [transport EXCEPT ![c] =
                        IF f.raised # "none" THEN "closed" ELSE f.transport]
    /\ currentCall' = [currentCall EXCEPT ![c] = f.currentCall]
    /\ calls' = calls \cup f.created
    /\ last' = Event("data", c, data, env, f)

\* DataReceived with a handler that gives the loop control back while it
\* waits for the constructor
DataReceived_while_calling(c) ==
    /\ last = Idle \/ last.kind = "calling"
    /\ transport[c] = "open"
    /\ \E data \in Datas :
          IF EnvsFor(data) = Envs
          THEN /\ last' = Event("calling", c, data, NoEnv, enter_call(c, data))
               /\ UNCHANGED <<transport, currentCall, calls>>
          ELSE \E f \in {data_received(c, data, NoEnv)} : Returned(c, data, NoEnv, f)
    /\ UNCHANGED <<paramsBound, did>>

\* The event loop calls data_received while the transport reads.  The
\* handler runs to its end, or as far as the Call constructor, which it
\* calls synchronously: the loop does not get control back before the
\* constructor has returned.
DataReceived(c) ==
    /\ last = Idle
    /\ transport[c] = "open"
    /\ \E data \in Datas :
          IF EnvsFor(data) = Envs
          THEN /\ last' = Event("calling", c, data, NoEnv, enter_call(c, data))
               /\ UNCHANGED <<transport, currentCall, calls>>
          ELSE \E f \in {data_received(c, data, NoEnv)} : Returned(c, data, NoEnv, f)
    /\ UNCHANGED <<paramsBound, did>>

\* the constructor returns a Call or throws, and the handler runs to its end
CallReturns ==
    /\ last.kind = "calling"
    /\ \E env \in Envs :
       \E f \in {data_received(last.conn, last.data, env)} :
              Returned(last.conn, last.data, env, f)
    /\ UNCHANGED <<paramsBound, did>>

\* connection_lost releasing the Call the connection holds
connection_lost_releases(c) ==
    /\ last = Idle
    /\ transport[c] \in {"open", "closed"}
    /\ transport' = [transport EXCEPT ![c] = "lost"]
    /\ currentCall' = [currentCall EXCEPT ![c] = None]
    /\ calls' = calls \ {currentCall[c]}
    /\ last' = Event("lost", c, NoData, NoEnv, Quiet)
    /\ UNCHANGED <<paramsBound, did>>

\* lines 178-182: the peer went away, or the closed transport reports it
connection_lost(c) ==
    /\ last = Idle
    /\ transport[c] \in {"open", "closed"}
    /\ transport' = [transport EXCEPT ![c] = "lost"]
    /\ last' = Event("lost", c, NoData, NoEnv, Quiet)
    /\ UNCHANGED <<paramsBound, did, currentCall, calls>>

\* the callback has returned; the loop polls again
Poll ==
    /\ last # Idle
    /\ last' = Idle
    /\ UNCHANGED <<paramsBound, transport, did, currentCall, calls>>

\* the thread goes on with what it is running: the handler that is inside
\* the constructor, or else the loop
Continue == IF last.kind = "calling" THEN CallReturns ELSE Poll

InitObjects ==
    /\ transport = [c \in Conns |-> "unborn"]
    /\ did = [c \in Conns |-> NoTag]
    /\ currentCall = [c \in Conns |-> None]
    /\ calls = {}
    /\ last = Idle

\* the module as written: nothing in it binds `params`
Init == paramsBound = FALSE /\ InitObjects

\* the module in a process that may have bound `params` in its namespace
InitEnv == paramsBound \in BOOLEAN /\ InitObjects

Next ==
    \/ \E c \in Conns : connection_made(c)
    \/ \E c \in Conns : DataReceived(c)
    \/ \E c \in Conns : connection_lost(c)
    \/ Continue

Spec == Init /\ [][Next]_vars

SpecEnv == InitEnv /\ [][Next]_vars

\* ---------------------------------------------------------- properties
Trying == "100 Trying"
Ok200  == "200 OK"
Err500 == "500 Internal Server Error"

\* the request handled last, when its header block decoded
Handled(method) ==
    /\ last.kind = "data"
    /\ last.data.hdr.ok
    /\ last.data.hdr.method = method

Statuses(ev) == [i \in 1..Len(ev.out) |-> ev.out[i].resp.status]

\* a Call made for Call-ID k is alive; a connection holds a Call made for k
LiveCallIn(cs, k) == \E x \in cs : x.callId = k
HandleIn(cc, k)   == \E c \in Conns : cc[c] # None /\ cc[c].callId = k
LiveCall(k)       == LiveCallIn(calls, k)

\* the bytes after the header block are one body, and the SDP parser throws on it
SdpFails(data) ==
    LET parts == split(data.rest, <<>>)
    IN  /\ Len(parts) = 2
        /\ Utf8Decodes(parts[2])
        /\ ~SdpParses(StripRtcp(parts[2]))

\* C1: every INVITE whose header block decodes is answered by exactly one
\* 100 Trying followed by exactly one final response, 200 OK or 500.
C1_InviteTryingThenOneFinal ==
    Handled("INVITE") =>
        Statuses(last) \in {<<Trying, Ok200>>, <<Trying, Err500>>}

\* C2: an INVITE whose body fails SDP parsing gets the single response 500,
\* makes no Call, and leaves the connection open.
C2_SdpFailureAnswered500 ==
    (Handled("INVITE") /\ SdpFails(last.data)) =>
        /\ Statuses(last) = <<Err500>>
        /\ last.created = {}
        /\ transport[last.conn] = "open"

\* C3: a request whose header block decodes, whatever its method, is
\* handled without an exception leaving data_received and without the
\* connection being terminated.
C3_NoUncaughtError ==
    (last.kind = "data" /\ last.data.hdr.ok) =>
        /\ last.raised = "none"
        /\ transport[last.conn] = "open"

\* C4: an INVITE whose SDP parses and whose Call collaborator does not fail
\* is answered 200 OK with the Call's non-empty answer, and the connection
\* holds the new Call; a 500 is final only when the collaborator failed.
C4_SuccessfulInviteAnswered200 ==
    (/\ Handled("INVITE")
     /\ ReachesCall(last.data)
     /\ last.env.call # "createFails") =>
        /\ Statuses(last) = <<Trying, Ok200>>
        /\ last.out[2].resp.body # EmptyStr
        /\ currentCall[last.conn] \in last.created

C6_ByeWithoutDialogNotSuccess ==
    (Handled("BYE") /\ ~LiveCall(last.data.hdr.callId)) =>
        \A i \in 1..Len(last.out) : last.out[i].resp.status # Ok200

C9_OptionsAnsweredNoStateChange ==
    [][ (/\ last'.kind = "data"
         /\ last'.data.hdr.ok
         /\ last'.data.hdr.method = "OPTIONS") =>
            /\ Len(last'.out) = 1
            /\ last'.out[1].resp.status = Ok200
            /\ last'.out[1].resp.body = EmptyStr
            /\ last'.out[1].resp.contentLength = 0
            /\ last'.out[1].resp.callId = last'.data.hdr.callId
            /\ UNCHANGED <<currentCall, did, calls, transport>> ]_vars

\* an OPTIONS was answered on a connection that holds a Call, for the
\* Call-ID of a live Call
C9_Witness ==
    /\ Handled("OPTIONS")
    /\ Statuses(last) = <<Ok200>>
    /\ currentCall[last.conn] # None
    /\ LiveCall(last.data.hdr.callId)

\* C10: when the header block does not decode the handler closes the
\* transport, writes nothing and changes no dialog state; and nothing is
\* ever written to a transport that is not open.
C10_DecodeFailureClosesSilently ==
    [][ /\ \A i \in 1..Len(last'.out) : last'.out[i].open
        /\ (last'.kind = "data" /\ ~last'.data.hdr.ok) =>
              /\ transport'[last'.conn] = "closed"
              /\ last'.out = <<>>
              /\ last'.raised = "none"
              /\ UNCHANGED <<currentCall, did, calls>> ]_vars

\* undecodable bytes arrived on a connection that holds a Call
C10_Witness ==
    /\ last.kind = "data"
    /\ ~last.data.hdr.ok
    /\ transport[last.conn] = "closed"
    /\ currentCall[last.conn] # None

C14_FailedCreationLeavesOthers ==
    [][ (/\ last'.kind = "data"
         /\ last'.data.hdr.ok
         /\ last'.data.hdr.method = "INVITE"
         /\ last'.caught # "none") =>
            /\ Statuses(last') = <<Trying, Err500>>
            /\ last'.out[2].resp.body = EmptyStr
            /\ last'.out[2].resp.contentLength = 0
            /\ last'.created = {}
            /\ UNCHANGED <<currentCall, calls, did, transport>> ]_vars

\* the constructor failed for an INVITE on a connection that holds the
\* Call of another dialog
C14_Witness ==
    /\ Handled("INVITE")
    /\ last.caught = "CallError"
    /\ currentCall[last.conn] # None
    /\ currentCall[last.conn].callId # last.data.hdr.callId
    /\ currentCall[last.conn] \in calls

NotImplemented == "501 Not Implemented"

\* C15: a request whose method is none of INVITE, ACK, BYE, OPTIONS is
\* answered by exactly one 501 Not Implemented with an empty body, and
\* changes no Call handle, no tag, no Call and no transport.
C15_UnknownMethod501 ==
    [][ (/\ last'.kind = "data"
         /\ last'.data.hdr.ok
         /\ last'.data.hdr.method \notin {"INVITE", "ACK", "BYE", "OPTIONS"}) =>
            /\ Statuses(last') = <<NotImplemented>>
            /\ last'.out[1].resp.body = EmptyStr
            /\ last'.out[1].resp.contentLength = 0
            /\ last'.out[1].resp.callId = last'.data.hdr.callId
            /\ last'.raised = "none"
            /\ UNCHANGED <<currentCall, did, calls, transport>> ]_vars

\* a REGISTER was answered 501 on a connection that holds a live Call
C15_Witness ==
    /\ Handled("REGISTER")
    /\ Statuses(last) = <<NotImplemented>>
    /\ currentCall[last.conn] \in calls

\* C16: no response says 501 Not Implemented to a request whose method its
\* own Allow header names.
C16_AllowedMethodsHandled ==
    (last.kind = "data" /\ last.data.hdr.ok) =>
        \A i \in 1..Len(last.out) :
            last.out[i].resp.status = NotImplemented =>
                last.data.hdr.method \notin last.out[i].resp.allow

\* C17: the To header of a response carries at most one tag: the tag the
\* request's To header came with, alone, or else the local tag.
C17_ToHeaderOneTag ==
    (last.kind = "data" /\ last.data.hdr.ok) =>
        \A i \in 1..Len(last.out) :
            /\ Len(last.out[i].resp.to) <= 1
            /\ last.data.hdr.toTags # <<>> =>
                   last.out[i].resp.to = last.data.hdr.toTags

\* C18: an INVITE whose bytes hold a further blank line after the one that
\* ends the header block is split into header block and body all the same
\* and gets 100 Trying and a final response.
C18_SplitAtFirstBlankLine ==
    (Handled("INVITE") /\ Len(split(last.data.rest, <<>>)) > 2) =>
        /\ last.raised = "none"
        /\ Len(last.out) = 2
        /\ last.out[2].resp.status \in {Ok200, Err500}

\* C19: on a connection the responses are written in the order of the
\* requests.  A handler starts only when no handler is running; once the
\* handler of a request has written a response, the next thing written is
\* its own remaining response; and every response a handler writes carries
\* the Call-ID of its request, 100 Trying before the final one.
C19_ResponsesInRequestOrder ==
    [][ /\ (last'.kind \in {"data", "calling"} /\ last.kind # "calling") =>
              last = Idle
        /\ (last.kind = "calling") =>
              /\ last'.kind = "data"
              /\ last'.conn = last.conn
              /\ last'.data = last.data
              /\ Len(last'.out) = Len(last.out) + 1
              /\ SubSeq(last'.out, 1, Len(last.out)) = last.out
        /\ \A i \in 1..Len(last'.out) :
              /\ last'.out[i].resp.callId = last'.data.hdr.callId
              /\ (last'.out[i].resp.status = Trying) => i = 1 ]_vars

\* the handler of an INVITE has written 100 Trying and is inside the
\* constructor, on a connection that answered an earlier INVITE, while
\* another connection is open
C19_Witness ==
    /\ last.kind = "calling"
    /\ Statuses(last) = <<Trying>>
    /\ currentCall[last.conn] # None
    /\ \E b \in Conns \ {last.conn} : transport[b] = "open"

\* C20: losing a connection cleans nothing up: connection_lost writes
\* nothing and leaves every Call handle, every tag and every Call as they
\* were; only the handling of a BYE may release a Call.
C20_ConnectionLostNoCleanup ==
    [][ /\ (last'.kind = "lost") =>
              /\ last'.out = <<>>
              /\ last'.created = {}
              /\ transport'[last'.conn] = "lost"
              /\ UNCHANGED <<currentCall, did, calls>>
        /\ ~(calls \subseteq calls') =>
              /\ last'.kind = "data"
              /\ last'.data.hdr.method = "BYE" ]_vars

\* a connection that holds a live Call was lost
C20_Witness ==
    /\ last.kind = "lost"
    /\ currentCall[last.conn] # None
    /\ currentCall[last.conn] \in calls

====
